---- MODULE Spec2Model ----
(***************************************************************************)
(* Model of the retrieval core of faq-chatbot-rag/app.py: chunk_text,      *)
(* build_index behind st.cache_data, retrieve over a FAISS IndexFlatIP,    *)
(* and the Streamlit script body that drives them on every rerun.          *)
(*                                                                         *)
(* Texts are sequences of one-character strings.  Row indexes, offsets and *)
(* slices are 0-based as in Python; TLA+ sequences are 1-based, so row i   *)
(* of a list is element i+1 of the sequence.                               *)
(***************************************************************************)
EXTENDS Integers, Sequences, FiniteSets, TLC

\* ---------------------------------------------------------------- bounds
MaxLen == 4
MaxChars == 3
MaxOverlap == 2
MaxChunks == MaxLen + 2
MaxSqlLen == 4

\* ------------------------------------------------------ program constants
DefaultMaxChars == 900
DefaultOverlap == 120
K == 5

VARIABLES
    \* chunk_text(text, max_chars, overlap): arguments, locals, position
    ct_raw, ct_max_chars, ct_overlap, ct_pc, ct_text, ct_start, ct_chunks,
    ct_windows,
    \* the Streamlit script: widgets, caches, globals of the last run
    uploaded, query, cache, model_cached, index, chunks, top, I_rows, status,
    \* history of the cache calls
    requested, was_requested, clear_pressed, built,
    \* n8n-ai-reporting/gpt_sql.py, ask(question): position, the SQL under
    \* test, whether fetch_df was called and with which SQL
    ask_pc, ask_sql, fetch_called, fetch_sql

ct_vars == <<ct_raw, ct_max_chars, ct_overlap, ct_pc, ct_text, ct_start,
             ct_chunks, ct_windows>>
app_vars == <<uploaded, query, cache, model_cached, index, chunks, top,
              I_rows, status, requested, was_requested, clear_pressed, built>>
ask_vars == <<ask_pc, ask_sql, fetch_called, fetch_sql>>
vars == <<ct_vars, app_vars, ask_vars>>

\* ------------------------------------------------------- Python helpers
Min(a, b) == IF a < b THEN a ELSE b
Max(a, b) == IF a > b THEN a ELSE b

\* str.isspace() characters that occur in the modelled texts
Whitespace == {" ", "\n", "\r", "\t"}

\* s[i:j] with Python's rules: negative offsets count from the end, both
\* offsets are clamped to [0, len(s)], an empty range gives "".
PySlice(s, i, j) ==
    LET n  == Len(s)
        lo == Max(0, Min(n, IF i < 0 THEN i + n ELSE i))
        hi == Max(0, Min(n, IF j < 0 THEN j + n ELSE j))
    IN  IF lo >= hi THEN <<>> ELSE SubSeq(s, lo + 1, hi)

\* str.strip(): drop leading and trailing whitespace
Strip(s) ==
    LET n == Len(s)
    IN  IF \A i \in 1..n : s[i] \in Whitespace THEN <<>>
        ELSE LET first == CHOOSE i \in 1..n :
                              /\ s[i] \notin Whitespace
                              /\ \A j \in 1..(i - 1) : s[j] \in Whitespace
                 last  == CHOOSE i \in 1..n :
                              /\ s[i] \notin Whitespace
                              /\ \A j \in (i + 1)..n : s[j] \in Whitespace
             IN  SubSeq(s, first, last)

\* str.replace("\r", "")
RemoveCR(s) == SelectSeq(s, LAMBDA c : c # "\r")

\* line 28: text.strip().replace("\r", "")
Normalize(t) == RemoveCR(Strip(t))

\* ------------------------------------------------------------ chunk_text
\* line 36: end = min(start + max_chars, n)
WindowEndShort(start, max_chars, n) == Min(start + max_chars - 1, n)
WindowEndLong(start, max_chars, n) == Min(start + max_chars + 1, n)
WindowEnd(start, max_chars, n) == Min(start + max_chars, n)

\* lines 42-44: start = end - overlap; if start < 0: start = 0
NextStartNoOverlap(end, overlap) == end
NextStartOneBack(end, overlap) ==
    IF end - overlap - 1 < 0 THEN 0 ELSE end - overlap - 1
NextStart(end, overlap) == IF end - overlap < 0 THEN 0 ELSE end - overlap

\* lines 37-39: chunk = text[start:end].strip(); if chunk: chunks.append(chunk)
AppendChunk(cs, window) ==
    IF Strip(window) # <<>> THEN Append(cs, Strip(window)) ELSE cs

\* The precondition of section 4.1; the code has no such test.
ValidConfig(max_chars, overlap) ==
    max_chars > overlap /\ overlap >= 0 /\ max_chars > 0

\* lines 28-30: normalise; an empty text returns [] at once
ChunkReturnEmpty ==
    /\ ct_pc = "call"
    /\ Normalize(ct_raw) = <<>>
    /\ ct_text' = Normalize(ct_raw)
    /\ ct_chunks' = <<>>
    /\ ct_pc' = "returned"
    /\ UNCHANGED <<ct_raw, ct_max_chars, ct_overlap, ct_start, ct_windows>>
    /\ UNCHANGED app_vars
    /\ UNCHANGED ask_vars

\* lines 28-34: normalise; chunks = [], start = 0, enter the while loop
ChunkEnterLoop ==
    /\ ct_pc = "call"
    /\ Normalize(ct_raw) # <<>>
    /\ ct_text' = Normalize(ct_raw)
    /\ ct_chunks' = <<>>
    /\ ct_start' = 0
    /\ ct_pc' = "loop"
    /\ UNCHANGED <<ct_raw, ct_max_chars, ct_overlap, ct_windows>>
    /\ UNCHANGED app_vars
    /\ UNCHANGED ask_vars

\* lines 35-44, an iteration that ends in "break" (end == n)
ChunkLastWindow ==
    /\ ct_pc = "loop"
    /\ ct_start < Len(ct_text)
    /\ Len(ct_windows) < MaxChunks
    /\ LET n      == Len(ct_text)
           end    == WindowEnd(ct_start, ct_max_chars, n)
           window == PySlice(ct_text, ct_start, end)
       IN  /\ end = n
           /\ ct_chunks' = AppendChunk(ct_chunks, window)
           /\ ct_windows' = Append(ct_windows, window)
           /\ ct_pc' = "returned"
    /\ UNCHANGED <<ct_raw, ct_max_chars, ct_overlap, ct_text, ct_start>>
    /\ UNCHANGED app_vars
    /\ UNCHANGED ask_vars

\* lines 35-44, an iteration that moves start and goes round again
ChunkAdvance ==
    /\ ct_pc = "loop"
    /\ ct_start < Len(ct_text)
    /\ Len(ct_windows) < MaxChunks
    /\ LET n      == Len(ct_text)
           end    == WindowEnd(ct_start, ct_max_chars, n)
           window == PySlice(ct_text, ct_start, end)
       IN  /\ end # n
           /\ ct_chunks' = AppendChunk(ct_chunks, window)
           /\ ct_windows' = Append(ct_windows, window)
           /\ ct_start' = NextStart(end, ct_overlap)
           /\ ct_pc' = "loop"
    /\ UNCHANGED <<ct_raw, ct_max_chars, ct_overlap, ct_text>>
    /\ UNCHANGED app_vars
    /\ UNCHANGED ask_vars

\* line 35 false (start >= n): fall out of the loop to line 45
ChunkLoopExit ==
    /\ ct_pc = "loop"
    /\ ct_start >= Len(ct_text)
    /\ ct_pc' = "returned"
    /\ UNCHANGED <<ct_raw, ct_max_chars, ct_overlap, ct_text, ct_start,
                   ct_chunks, ct_windows>>
    /\ UNCHANGED app_vars
    /\ UNCHANGED ask_vars

\* chunk_text as a function: lines 28-45 run to completion
RECURSIVE ChunkLoop(_, _, _, _, _)
ChunkLoop(text, start, cs, max_chars, overlap) ==
    LET n   == Len(text)
        end == WindowEnd(start, max_chars, n)
        cs2 == AppendChunk(cs, PySlice(text, start, end))
    IN  IF start >= n THEN cs
        ELSE IF end = n THEN cs2
        ELSE ChunkLoop(text, NextStart(end, overlap), cs2, max_chars, overlap)

chunk_text(t, max_chars, overlap) ==
    IF Normalize(t) = <<>> THEN <<>>
    ELSE ChunkLoop(Normalize(t), 0, <<>>, max_chars, overlap)

\* ----------------------------------------------------------- build_index
\* str.split("\n\n"): cut at the non-overlapping separators, left to right
RECURSIVE SplitBlank(_)
SplitBlank(s) ==
    LET hits == {i \in 1..(Len(s) - 1) : s[i] = "\n" /\ s[i + 1] = "\n"}
    IN  IF hits = {} THEN <<s>>
        ELSE LET i == CHOOSE h \in hits : \A g \in hits : h <= g
             IN  <<SubSeq(s, 1, i - 1)>> \o SplitBlank(SubSeq(s, i + 2, Len(s)))

\* line 70: rough_parts = [p for p in raw.split("\n\n") if p.strip()]
RoughParts(raw) == SelectSeq(SplitBlank(raw), LAMBDA p : Strip(p) # <<>>)

\* line 72: all_chunks.extend(...)
ExtendFront(all, new) == new \o all
Extend(all, new) == all \o new

\* lines 71-72: for part in rough_parts
RECURSIVE PartsLoop(_, _)
PartsLoop(parts, all) ==
    IF parts = <<>> THEN all
    ELSE PartsLoop(Tail(parts),
                   Extend(all, chunk_text(Head(parts), DefaultMaxChars,
                                          DefaultOverlap)))

\* lines 67-72: for page in reader.pages (a page is its extracted text,
\* "" when extract_text() gives None)
RECURSIVE PagesLoop(_, _)
PagesLoop(pages, all) ==
    IF pages = <<>> THEN all
    ELSE PagesLoop(Tail(pages), PartsLoop(RoughParts(Head(pages)), all))

\* lines 62-72: for f in files
RECURSIVE FilesLoop(_, _)
FilesLoop(files, all) ==
    IF files = <<>> THEN all
    ELSE FilesLoop(Tail(files), PagesLoop(Head(files).pages, all))

Count(s, c) == Cardinality({i \in 1..Len(s) : s[i] = c})

\* embed_model.encode of one text (lines 77, 85).  The model is opaque to
\* the program; here it is a fixed deterministic map to integer vectors.
Embed(t) == <<Count(t, "a"), Count(t, "b"), Len(t)>>

\* line 77: encode(all_chunks): one row per chunk, in chunk order
Encode(cs) == [i \in 1..Len(cs) |-> Embed(cs[i])]

\* the value None of "return None, []"
NoneIndex == [built |-> FALSE, vecs |-> <<>>]

\* lines 60-82
build_index(files) ==
    LET all_chunks == FilesLoop(files, <<>>)
    IN  IF all_chunks = <<>>
        THEN [index |-> NoneIndex, chunks |-> <<>>]
        ELSE [index |-> [built |-> TRUE, vecs |-> Encode(all_chunks)],
              chunks |-> all_chunks]

\* -------------------------------------------------------------- retrieve
Dot(u, v) == u[1] * v[1] + u[2] * v[2] + u[3] * v[3]

\* what IndexFlatIP.search writes in D for a slot it has no row for
\* (std::numeric_limits<float>::lowest()); the label of such a slot is -1
NegFltMax == 0 - 1000000

\* every order in which an exact inner-product search may report its m best
\* rows: scores never increase; rows of equal score come in any order
RECURSIVE Picks(_, _, _)
Picks(sc, rows, m) ==
    IF m = 0 \/ rows = {} THEN {<<>>}
    ELSE LET best == {r \in rows : \A o \in rows : sc[r + 1] >= sc[o + 1]}
         IN  UNION {{<<r>> \o p : p \in Picks(sc, rows \ {r}, m - 1)} :
                    r \in best}

\* line 86: D, I = index.search(qv, k), for one query vector; the k slots
\* beyond the stored rows are filled with (lowest float, -1)
IndexSearch(vecs, qv, k) ==
    LET N  == Len(vecs)
        sc == [i \in 1..N |-> Dot(vecs[i], qv)]
        m  == Min(k, N)
    IN  {[I |-> [j \in 1..k |-> IF j <= m THEN p[j] ELSE 0 - 1],
          D |-> [j \in 1..k |-> IF j <= m THEN sc[p[j] + 1] ELSE NegFltMax]] :
         p \in Picks(sc, 0..(N - 1), m)}

\* Python list indexing: chunks[i], a negative i counts from the end
PyIndex(s, i) == IF i < 0 THEN s[Len(s) + i + 1] ELSE s[i + 1]

\* lines 85-89: the results retrieve can return on a built index
retrieve(idx, cs, q, k) ==
    {[I |-> r.I,
      top |-> [j \in 1..Len(r.I) |-> <<PyIndex(cs, r.I[j]), r.D[j]>>]] :
     r \in IndexSearch(idx.vecs, Embed(q), k)}

\* -------------------------------------------------------------- inputs
Rep(c, n) == [i \in 1..n |-> c]

DocFaq == [name |-> "faq.pdf", pages |-> << <<"a", "\n", "\n", "b">> >>]
DocFaqEdited == [name |-> "faq.pdf", pages |-> << <<"b", " ", "a">> >>]
DocScan == [name |-> "scan.pdf",
            pages |-> << <<>>, <<" ", "\n", "\n", "\r", " ">> >>]
DocMany ==
    [name |-> "many.pdf",
     pages |-> << <<"a", "\n", "\n", "b", "\n", "\n", "\n", "a", " ", "b">>,
                  <<"b", " ", "a", "\n", "\n", "a", "b", "\r", "\n", "\n",
                    " ", "a", " ">> >>]
DocLong == [name |-> "long.pdf",
            pages |-> << Rep("a", DefaultMaxChars) \o <<" ", "b">> >>]

Uploads == {<<>>, <<DocFaq>>, <<DocFaqEdited>>, <<DocScan>>,
            <<DocFaq, DocFaqEdited>>, <<DocFaqEdited, DocFaq>>,
            <<DocScan, DocMany>>, <<DocLong, DocFaq>>}

Queries == {<<>>, <<"a">>, <<"b">>}

Alphabet == {"a", "b", " ", "\r"}

RECURSIVE Texts(_)
Texts(n) ==
    IF n = 0 THEN {<<>>}
    ELSE Texts(n - 1) \cup
         {Append(t, c) : t \in {u \in Texts(n - 1) : Len(u) = n - 1},
                         c \in Alphabet}

\* build_index on each document set the uploader can hold, tabulated
BuildOf == [files \in Uploads |-> build_index(files)]

\* ------------------------------------------------------------ the script
\* the key st.cache_data derives from the argument of build_index (line 54):
\* a hash of each uploaded file's name and bytes, in list order
CacheKeyNameOnly(files) ==
    [i \in 1..Len(files) |-> [name |-> files[i].name, data |-> <<>>]]
CacheKey(files) ==
    [i \in 1..Len(files) |-> [name |-> files[i].name, data |-> files[i].pages]]

\* line 133: if query and chunks
QueryGuardNoChunks(q, cs) == q # <<>>
QueryGuard(q, cs) == q # <<>> /\ cs # <<>>

\* lines 54-55, 127: build_index through st.cache_data, on the cache c
CachedBuildNoStore(c, files) ==
    [corpus |-> BuildOf[files], cache |-> c, built |-> TRUE]
CachedBuild(c, files) ==
    LET key == CacheKey(files)
        hit == \E e \in c : e.key = key
    IN  IF hit
        THEN [corpus |-> (CHOOSE e \in c : e.key = key).value,
              cache |-> c, built |-> FALSE]
        ELSE [corpus |-> BuildOf[files],
              cache |-> c \cup {[key |-> key, value |-> BuildOf[files]]},
              built |-> TRUE]

\* One run of the script (lines 52, 113-159) with the widget values files
\* and q; press tells whether "Clear caches" was clicked (lines 121-124,
\* which run before line 126).  The uploader hands every run file objects
\* positioned at their first byte, so f.read() (line 64) gives the whole
\* file whenever build_index runs.
ScriptRun(files, q, press) ==
    LET cache1 == IF press THEN {} ELSE cache
        req1   == IF press THEN {} ELSE requested
        got    == CachedBuild(cache1, files)
    IN  /\ uploaded' = files
        /\ query' = q
        /\ clear_pressed' = press
        /\ model_cached' = ~press
        /\ IF files = <<>>
           THEN \* line 159: st.info("Upload PDFs to start.")
                /\ cache' = cache1
                /\ requested' = req1
                /\ was_requested' = FALSE
                /\ built' = FALSE
                /\ index' = NoneIndex
                /\ chunks' = <<>>
                /\ top' = <<>>
                /\ I_rows' = <<>>
                /\ status' = "no_upload"
           ELSE /\ cache' = got.cache
                /\ requested' = req1 \cup {CacheKey(files)}
                /\ was_requested' = (CacheKey(files) \in requested)
                /\ built' = got.built
                /\ index' = got.corpus.index
                /\ chunks' = got.corpus.chunks
                /\ IF ~QueryGuard(q, got.corpus.chunks)
                   THEN \* lines 128-131: success or warning, no retrieval
                        /\ top' = <<>>
                        /\ I_rows' = <<>>
                        /\ status' = IF got.corpus.chunks # <<>>
                                     THEN "indexed" ELSE "no_text"
                   ELSE IF ~got.corpus.index.built
                   THEN \* line 86 on None: AttributeError ends the run
                        /\ top' = <<>>
                        /\ I_rows' = <<>>
                        /\ status' = "AttributeError"
                   ELSE \* lines 134-155
                        \E r \in retrieve(got.corpus.index, got.corpus.chunks,
                                          q, K) :
                            /\ top' = r.top
                            /\ I_rows' = r.I
                            /\ status' = "answered"
    /\ UNCHANGED ct_vars
    /\ UNCHANGED ask_vars

\* a rerun caused by a change of the uploader or of the question
Rerun(files, q) == ScriptRun(files, q, FALSE)

\* the rerun caused by the "Clear caches" button
ClearCaches(files, q) == ScriptRun(files, q, TRUE)

\* ------------------------------------------- n8n-ai-reporting/gpt_sql.py
\* A SQL text is the sequence of its words and punctuation marks; the blanks
\* between them are not represented.

\* ask is not running
AskIdle ==
    /\ ask_pc = "idle"
    /\ ask_sql = <<>>
    /\ fetch_called = FALSE
    /\ fetch_sql = <<>>

\* str.lower() on the words that occur in the modelled texts
Lower(w) ==
    CASE w = "DROP" -> "drop"
      [] w = "LIMIT" -> "limit"
      [] w = "Select" -> "select"
      [] OTHER -> w

\* lines 11-23: the keys of ALLOWED
ALLOWED == {"dim_date", "dim_customer", "dim_product", "fact_orders",
            "fact_order_items", "fact_events", "v_daily_revenue",
            "v_revenue_rolling_7d", "v_top_products_30d",
            "v_retention_cohorts", "mv_daily_metrics"}

\* line 33: the words of BLOCK, matched whole and without regard to case
BLOCK == {"insert", "update", "delete", "drop", "alter", "truncate", "grant",
          "revoke", "call", "create"}

\* lines 47-49: the words the loop skips first
SqlWords == {"select", "from", "where", "join", "on", "and", "or", "case",
             "when", "then", "else", "end", "group", "by", "order", "limit",
             "offset", "asc", "desc", "having", "as", "distinct", "sum",
             "count", "avg", "min", "max", "date_trunc", "coalesce", "filter",
             "over", "rows", "between", "preceding", "current", "row",
             "jsonb", "extract"}

\* line 36: len(sqlparse.parse(sql)): every ";" closes a statement, and what
\* follows the last ";" is one more statement
NumStatements(sql) ==
    Cardinality({i \in 1..Len(sql) : sql[i] = ";"}) +
    (IF sql # <<>> /\ sql[Len(sql)] # ";" THEN 1 ELSE 0)

\* line 40: stmt.get_type(): the first word, in upper case, when it is a
\* DML or DDL keyword
GetType(sql) ==
    IF sql = <<>> THEN "UNKNOWN"
    ELSE CASE Lower(sql[1]) = "select" -> "SELECT"
           [] Lower(sql[1]) = "drop" -> "DROP"
           [] OTHER -> "UNKNOWN"

\* line 42: BLOCK.search(sql)
BlockSearch(sql) == \E i \in 1..Len(sql) : Lower(sql[i]) \in BLOCK

\* line 46: the identifiers re.findall yields from sql.lower()
IsWord(w) == w \notin {";", "*", "500"}
WordsOf(sql) ==
    LET ws == SelectSeq(sql, IsWord)
    IN  [i \in 1..Len(ws) |-> Lower(ws[i])]

\* lines 46-53: the loop over the words; each branch ends in "continue" and
\* a word that is neither a SQL word nor a key of ALLOWED ends the loop body
\* as well, so the verdict ok is never changed
RECURSIVE AllowedLoop(_, _)
AllowedLoop(words, ok) ==
    IF words = <<>> THEN ok
    ELSE IF Head(words) \in SqlWords THEN AllowedLoop(Tail(words), ok)
    ELSE IF Head(words) \in ALLOWED THEN AllowedLoop(Tail(words), ok)
    ELSE AllowedLoop(Tail(words), ok)

\* lines 35-54
is_safe_select(sql) ==
    IF NumStatements(sql) # 1 THEN FALSE
    ELSE IF GetType(sql) # "SELECT" THEN FALSE
    ELSE IF BlockSearch(sql) THEN FALSE
    ELSE AllowedLoop(WordsOf(sql), TRUE)

\* lines 56-59
ensure_limit(sql) ==
    IF \E i \in 1..Len(sql) : Lower(sql[i]) = "limit" THEN sql
    ELSE sql \o <<"LIMIT", "500">>

\* the words a model reply is made of
SqlVocabulary == {"Select", "from", "fact_orders", "pg_shadow", "DROP",
                  "limit", ";", "*"}

RECURSIVE SqlTexts(_)
SqlTexts(n) ==
    IF n = 0 THEN {<<>>}
    ELSE SqlTexts(n - 1) \cup
         {Append(t, w) : t \in {u \in SqlTexts(n - 1) : Len(u) = n - 1},
                         w \in SqlVocabulary}

\* lines 72-87: the model replies with out.sql; sql = ensure_limit(out.sql.strip())
AskModelReply ==
    /\ ask_pc = "call"
    /\ \E out_sql \in SqlTexts(MaxSqlLen) : ask_sql' = ensure_limit(out_sql)
    /\ ask_pc' = "check"
    /\ UNCHANGED <<fetch_called, fetch_sql>>
    /\ UNCHANGED <<ct_vars, app_vars>>

\* lines 88-89: raise ValueError("Unsafe or invalid SQL produced.")
AskRaise ==
    /\ ask_pc = "check"
    /\ ~is_safe_select(ask_sql)
    /\ ask_pc' = "ValueError"
    /\ UNCHANGED <<ask_sql, fetch_called, fetch_sql>>
    /\ UNCHANGED <<ct_vars, app_vars>>

\* line 90: return fetch_df(sql, params or {}), sql, out.rationale
AskFetch ==
    /\ ask_pc = "check"
    /\ is_safe_select(ask_sql)
    /\ fetch_called' = TRUE
    /\ fetch_sql' = ask_sql
    /\ ask_pc' = "returned"
    /\ UNCHANGED ask_sql
    /\ UNCHANGED <<ct_vars, app_vars>>

\* ------------------------------------------------------- specifications
AppIdle ==
    /\ uploaded = <<>>
    /\ query = <<>>
    /\ cache = {}
    /\ model_cached = FALSE
    /\ index = NoneIndex
    /\ chunks = <<>>
    /\ top = <<>>
    /\ I_rows = <<>>
    /\ status = "no_upload"
    /\ requested = {}
    /\ was_requested = FALSE
    /\ clear_pressed = FALSE
    /\ built = FALSE

ChunkIdle ==
    /\ ct_raw = <<>>
    /\ ct_max_chars = DefaultMaxChars
    /\ ct_overlap = DefaultOverlap
    /\ ct_pc = "idle"
    /\ ct_text = <<>>
    /\ ct_start = 0
    /\ ct_chunks = <<>>
    /\ ct_windows = <<>>

\* the application before its first run
Init == AppIdle /\ ChunkIdle /\ AskIdle

Next ==
    \E files \in Uploads, q \in Queries :
        \/ Rerun(files, q)
        \/ ClearCaches(files, q)

Spec == Init /\ [][Next]_vars

\* one call chunk_text(text, max_chars, overlap), any arguments in the bounds
InitChunk ==
    /\ AppIdle
    /\ AskIdle
    /\ ct_raw \in Texts(MaxLen)
    /\ ct_max_chars \in (0 - 1)..MaxChars
    /\ ct_overlap \in (0 - 1)..MaxOverlap
    /\ ct_pc = "call"
    /\ ct_text = <<>>
    /\ ct_start = 0
    /\ ct_chunks = <<>>
    /\ ct_windows = <<>>

NextChunk ==
    \/ ChunkReturnEmpty
    \/ ChunkEnterLoop
    \/ ChunkLastWindow
    \/ ChunkAdvance
    \/ ChunkLoopExit

SpecChunk == InitChunk /\ [][NextChunk]_vars

\* one call ask(question)
InitAsk ==
    /\ AppIdle
    /\ ChunkIdle
    /\ ask_pc = "call"
    /\ ask_sql = <<>>
    /\ fetch_called = FALSE
    /\ fetch_sql = <<>>

NextAsk == AskModelReply \/ AskRaise \/ AskFetch

SpecAsk == InitAsk /\ [][NextAsk]_vars

\* ------------------------------------------------------------ properties
RECURSIVE Flatten(_)
Flatten(ss) == IF ss = <<>> THEN <<>> ELSE Head(ss) \o Flatten(Tail(ss))

\* every blank-line section of every page of every file, in input order
SectionsOf(files) ==
    Flatten([f \in 1..Len(files) |->
        Flatten([p \in 1..Len(files[f].pages) |->
            SplitBlank(files[f].pages[p])])])

\* the chunk sequences of the sections, one after the other
ExpectedChunks(files) ==
    LET secs == SectionsOf(files)
    IN  Flatten([s \in 1..Len(secs) |->
            chunk_text(secs[s], DefaultMaxChars, DefaultOverlap)])

\* the first chunk, then each later chunk without its first overlap characters
RECURSIVE TailParts(_, _)
TailParts(cs, overlap) ==
    IF cs = <<>> THEN <<>>
    ELSE PySlice(Head(cs), overlap, Len(Head(cs))) \o
         TailParts(Tail(cs), overlap)
Reassemble(cs, overlap) ==
    IF cs = <<>> THEN <<>> ELSE Head(cs) \o TailParts(Tail(cs), overlap)

\* no window of the scan was shortened or dropped by the strip of line 37
WindowsUntrimmed ==
    \A i \in 1..Len(ct_windows) :
        /\ ct_windows[i] # <<>>
        /\ ct_windows[i][1] \notin Whitespace
        /\ ct_windows[i][Len(ct_windows[i])] \notin Whitespace

ChunkReturned == ct_pc = "returned"
ChunkValid == ValidConfig(ct_max_chars, ct_overlap)

\* C1: a query with k greater than the number N of stored vectors returns
\* exactly N results, one per distinct stored row, with no padding or
\* repetition.
C1_SearchReturnsAllRows ==
    (status = "answered" /\ K > Len(index.vecs)) =>
        /\ Len(top) = Len(index.vecs)
        /\ \A i \in 1..Len(I_rows) : I_rows[i] \in 0..(Len(index.vecs) - 1)
        /\ \A i, j \in 1..Len(I_rows) : i # j => I_rows[i] # I_rows[j]

\* C2: a call of chunk_text with max_chars <= overlap, max_chars <= 0 or
\* overlap < 0 is rejected with InvalidConfiguration before any chunk is
\* produced: it never enters the scan and never returns chunks.
C2_InvalidConfigRejected ==
    ~ChunkValid =>
        /\ ct_pc \in {"call", "InvalidConfiguration"}
        /\ ct_chunks = <<>>

\* C3: when the combined chunk sequence of the uploaded documents is empty,
\* the build gives no index and no chunks, and a question asked against it
\* is answered by the no-content signal (status "no_text"), never by a
\* retrieval result.
C3_EmptyCorpusSignalled ==
    (uploaded # <<>> /\ ExpectedChunks(uploaded) = <<>>) =>
        /\ index = NoneIndex
        /\ chunks = <<>>
        /\ status = "no_text"
        /\ top = <<>>

C3_Witness ==
    /\ uploaded # <<>>
    /\ ExpectedChunks(uploaded) = <<>>
    /\ query # <<>>
    /\ status = "no_text"

\* C4 as stated: for every valid configuration, the first chunk followed by
\* each later chunk without its first overlap characters is the trimmed,
\* line-ending-normalized input.
C4_ReassembleAlways ==
    (ChunkReturned /\ ChunkValid) =>
        Reassemble(ct_chunks, ct_overlap) = Normalize(ct_raw)

\* C4 as amended: the same, for the calls in which no scanned window begins
\* or ends with whitespace.
C4_ReassembleUntrimmed ==
    (ChunkReturned /\ ChunkValid /\ WindowsUntrimmed) =>
        Reassemble(ct_chunks, ct_overlap) = Normalize(ct_raw)

C4_Witness ==
    /\ ChunkReturned
    /\ ChunkValid
    /\ WindowsUntrimmed
    /\ ct_overlap >= 1
    /\ Len(ct_chunks) >= 2
    /\ ct_raw # Normalize(ct_raw)

\* C5: for every valid configuration, every chunk produced is non-empty,
\* begins and ends with a non-whitespace character and has at most
\* max_chars characters.
C5_ChunkShape ==
    ChunkValid =>
        \A i \in 1..Len(ct_chunks) :
            /\ ct_chunks[i] # <<>>
            /\ ct_chunks[i][1] \notin Whitespace
            /\ ct_chunks[i][Len(ct_chunks[i])] \notin Whitespace
            /\ Len(ct_chunks[i]) <= ct_max_chars

C5_Witness ==
    /\ ChunkReturned
    /\ ChunkValid
    /\ Len(ct_chunks) >= 2
    /\ ~WindowsUntrimmed
    /\ \E i \in 1..Len(ct_chunks) : Len(ct_chunks[i]) = ct_max_chars

\* C6 as stated: for every valid configuration, a text that is empty after
\* trimming gives no chunk, and a text whose trimmed length is at most
\* max_chars gives exactly one chunk, equal to the trimmed text.
C6_ShortTextIsTrimmedText ==
    (ChunkReturned /\ ChunkValid) =>
        /\ Strip(ct_raw) = <<>> => ct_chunks = <<>>
        /\ (Strip(ct_raw) # <<>> /\ Len(Strip(ct_raw)) <= ct_max_chars) =>
               ct_chunks = <<Strip(ct_raw)>>

\* C6 as amended: the one chunk is the trimmed text with its carriage
\* returns removed.
C6_ShortTextIsTrimmedTextNoCR ==
    (ChunkReturned /\ ChunkValid) =>
        /\ Strip(ct_raw) = <<>> => ct_chunks = <<>>
        /\ (Strip(ct_raw) # <<>> /\ Len(Strip(ct_raw)) <= ct_max_chars) =>
               ct_chunks = <<SelectSeq(Strip(ct_raw), LAMBDA c : c # "\r")>>

C6_Witness ==
    /\ ChunkReturned
    /\ ChunkValid
    /\ Strip(ct_raw) # ct_raw
    /\ Len(Strip(ct_raw)) = ct_max_chars
    /\ \E i \in 1..Len(Strip(ct_raw)) : Strip(ct_raw)[i] = "\r"
    /\ Len(ct_chunks) = 1

\* C7: a call of the cached build whose key was already requested, with no
\* clear since, does not run build_index; a call made after a clear runs it
\* again.
C7_BuildOncePerKey ==
    uploaded # <<>> =>
        /\ (was_requested /\ ~clear_pressed) => ~built
        /\ clear_pressed => built

C7_Witness ==
    /\ uploaded # <<>>
    /\ was_requested
    /\ clear_pressed
    /\ built

\* C8: whatever builds, questions and clears came before, the index and
\* chunks in use are those of a fresh build of the current uploads, and the
\* answer to the question is one a retrieval on that fresh build gives.
C8_CachedEqualsFresh ==
    uploaded # <<>> =>
        LET fresh == build_index(uploaded)
        IN  /\ index = fresh.index
            /\ chunks = fresh.chunks
            /\ (status = "answered") = QueryGuard(query, fresh.chunks)
            /\ status = "answered" =>
                   [I |-> I_rows, top |-> top] \in
                       retrieve(fresh.index, fresh.chunks, query, K)

C8_Witness ==
    /\ uploaded # <<>>
    /\ was_requested
    /\ ~built
    /\ status = "answered"
    /\ cache # {}
    /\ Cardinality(cache) >= 2

\* C9: the corpus has as many chunks as vectors, row i being the embedding
\* of chunk i, and every result pairs a score with the chunk at the row the
\* search reported for that score.
C9_RowsAligned ==
    uploaded # <<>> =>
        /\ Len(chunks) = Len(index.vecs)
        /\ \A i \in 1..Len(chunks) : index.vecs[i] = Embed(chunks[i])
        /\ status = "answered" =>
               \A j \in 1..Len(top) :
                   /\ I_rows[j] \in 0..(Len(chunks) - 1)
                   /\ top[j][1] = chunks[I_rows[j] + 1]
                   /\ top[j][2] = Dot(index.vecs[I_rows[j] + 1], Embed(query))

\* C10: the chunks of the built corpus are the chunk sequences of the
\* sections, concatenated in file order, then page order, then section
\* order; none is dropped, repeated or moved.
C10_ChunkOrder ==
    uploaded # <<>> => chunks = ExpectedChunks(uploaded)

C10_Witness ==
    /\ built
    /\ Len(uploaded) >= 2
    /\ \E f \in 1..Len(uploaded) : Len(uploaded[f].pages) >= 2
    /\ Len(chunks) >= K
    /\ \E i, j \in 1..Len(chunks) : chunks[i] # chunks[j]

\* the scores D[0] of the last retrieval, as retrieve returned them
Sims == [j \in 1..Len(top) |-> top[j][2]]

\* C11: the results of a search are ordered by non-increasing score, and of
\* two results with equal score the one with the lower row index comes first.
C11_SortedTiesByRow ==
    status = "answered" =>
        \A i, j \in 1..Len(top) :
            i < j =>
                \/ Sims[i] > Sims[j]
                \/ Sims[i] = Sims[j] /\ I_rows[i] <= I_rows[j]

\* chunk_text runs to its return: a call that can take a step takes it
SpecChunkFair == SpecChunk /\ WF_vars(NextChunk)

\* an iteration of the scan that goes round again: start moves forward by
\* max_chars - overlap, and the window it scanned ended before the text did
ScanAdvances ==
    (ct_pc = "loop" /\ ct_pc' = "loop") =>
        /\ ct_start' = ct_start + ct_max_chars - ct_overlap
        /\ ct_start' > ct_start
        /\ ct_start + ct_max_chars < Len(ct_text)

\* the iteration that leaves the scan: its window is the rest of the text,
\* and no earlier window reached the end of the text
ScanStops ==
    (ct_pc = "loop" /\ ct_pc' = "returned") =>
        /\ ct_start + ct_max_chars >= Len(ct_text)
        /\ ct_windows' =
               Append(ct_windows, SubSeq(ct_text, ct_start + 1, Len(ct_text)))
        /\ \A i \in 1..Len(ct_windows) :
               (i - 1) * (ct_max_chars - ct_overlap) + Len(ct_windows[i])
                   < Len(ct_text)

\* C12: for max_chars > overlap >= 0 the scan of chunk_text terminates:
\* every iteration that does not reach the end of the text moves start to
\* start + max_chars - overlap, strictly past the previous start, and the
\* scan stops at the first window whose end is the text length.
C12_ScanTerminates ==
    /\ [][ChunkValid => (ScanAdvances /\ ScanStops)]_vars
    /\ ChunkValid => <>ChunkReturned

C12_Witness ==
    /\ ChunkReturned
    /\ ChunkValid
    /\ ct_overlap >= 1
    /\ Len(ct_windows) >= 3
    /\ ct_start = (Len(ct_windows) - 1) * (ct_max_chars - ct_overlap)

\* the relations a SQL text reads: the words after FROM and JOIN
Relations(sql) ==
    {Lower(sql[i + 1]) : i \in {j \in 1..(Len(sql) - 1) :
                                   /\ Lower(sql[j]) \in {"from", "join"}
                                   /\ IsWord(sql[j + 1])
                                   /\ Lower(sql[j + 1]) \notin SqlWords}}

\* a single statement: at most one ";", and only as the last mark
SingleStatement(sql) ==
    /\ sql # <<>>
    /\ \A i \in 1..(Len(sql) - 1) : sql[i] # ";"
    /\ sql # <<";">>

\* fetch_df is reached only through a true verdict of is_safe_select, and a
\* false verdict ends ask in ValueError
AskGuardsFetch ==
    /\ fetch_called => (fetch_sql = ask_sql /\ is_safe_select(fetch_sql))
    /\ (ask_pc \in {"ValueError", "returned"} /\ ~is_safe_select(ask_sql)) =>
           (ask_pc = "ValueError" /\ ~fetch_called)

\* C13: ask queries the database only with SQL that is_safe_select accepted
\* and raises ValueError without calling fetch_df otherwise; and the SQL
\* is_safe_select accepted, which fetch_df then runs, is a single SELECT
\* statement without blocked keywords that reads only relations listed in
\* ALLOWED.
C13_OnlySafeSelectFetched ==
    /\ AskGuardsFetch
    /\ fetch_called =>
           /\ SingleStatement(fetch_sql)
           /\ Lower(fetch_sql[1]) = "select"
           /\ \A i \in 1..Len(fetch_sql) : Lower(fetch_sql[i]) \notin BLOCK
           /\ Relations(fetch_sql) \subseteq ALLOWED

====
